---------------------------- MODULE Spec2Model ----------------------------
(***************************************************************************)
(* The client-side conversation cache of the admin conversations page:    *)
(* an IndexedDB object store (structured tier) with a localStorage        *)
(* fallback (flat tier), a 24 hour expiry and an eviction sweep.           *)
(*                                                                         *)
(* One action is one task of the browser's event loop: the synchronous    *)
(* code of a call up to the IndexedDB request it waits for, or the        *)
(* handler of a completed request up to the next request.  Requests to    *)
(* the structured tier wait in `queue` and complete in the order issued.  *)
(***************************************************************************)
EXTENDS Integers, Sequences, FiniteSets, TLC

(***************************************************************************)
(* Bounds of the model.                                                    *)
(***************************************************************************)
MaxTicks == 2
\* the largest number of records found in the structured tier at start-up
MaxRecords == 52
\* the largest number of cache entries found in the flat tier at start-up
MaxEntries == 7
\* the largest number of pages the remote has for one date when two loads overlap
MaxPages == 2

(***************************************************************************)
(* Program constants.                                                      *)
(***************************************************************************)
CONVERSATION_CACHE_PREFIX == "admin_conversations_cache_"
LEGACY_CACHE_PREFIX == "conversations_cache_"
CACHE_EXPIRY_HOURS == 24
TTL == CACHE_EXPIRY_HOURS * 60 * 60 * 1000
LOCALSTORAGE_ENTRY_LIMIT == 2 * 1024 * 1024
IDB_MAX_ENTRIES == 50
IDB_MAX_ENTRIES_LARGE == 30
IDB_SIZE_LIMIT == 500 * 1024 * 1024
LS_MAX_ENTRIES == 5

(***************************************************************************)
(* JavaScript values.  Strings are tuples of one-character strings.        *)
(***************************************************************************)
Undefined == [t |-> "undefined"]
Str(s) == [t |-> "string", s |-> s]
DateObj(iso) == [t |-> "Date", iso |-> iso]
Num(n) == [t |-> "number", n |-> n]

Truthy(v) ==
    CASE v.t = "undefined" -> FALSE
      [] v.t = "string" -> v.s # <<>>
      [] v.t = "number" -> v.n # 0
      [] OTHER -> TRUE

\* String(v)
StringOf(v) ==
    CASE v.t = "string" -> v.s
      [] v.t = "Date" -> v.iso
      [] v.t = "number" -> <<"#">>
      [] OTHER -> <<"u", "n", "d", "e", "f">>

RECURSIVE TrimLeft(_)
TrimLeft(s) == IF s # <<>> /\ Head(s) = " " THEN TrimLeft(Tail(s)) ELSE s

RECURSIVE TrimRight(_)
TrimRight(s) ==
    IF s # <<>> /\ s[Len(s)] = " " THEN TrimRight(SubSeq(s, 1, Len(s) - 1)) ELSE s

Trim(s) == TrimRight(TrimLeft(s))

\* s.split('T')[0]
RECURSIVE BeforeT(_)
BeforeT(s) ==
    IF s = <<>> \/ Head(s) = "T" THEN <<>> ELSE <<Head(s)>> \o BeforeT(Tail(s))

Includes(s, c) == \E i \in 1..Len(s) : s[i] = c

\* a key made of the date alone
getConversationCacheKeyWithoutOwner(adminId, date) ==
    LET normalizedDate ==
            IF ~Truthy(date) THEN <<>>
            ELSE IF date.t = "string"
                 THEN LET trimmed == Trim(date.s)
                      IN  IF Includes(trimmed, "T") THEN BeforeT(trimmed) ELSE trimmed
            ELSE IF date.t = "Date" THEN BeforeT(date.iso)
            ELSE <<>>
    IN  <<"_">> \o normalizedDate

\* a key that keeps the time of day of a date-time
getConversationCacheKeyUntruncated(adminId, date) ==
    LET normalizedAdminId == Trim(IF Truthy(adminId) THEN StringOf(adminId) ELSE <<>>)
        normalizedDate ==
            IF ~Truthy(date) THEN <<>>
            ELSE IF date.t = "string" THEN Trim(date.s)
            ELSE IF date.t = "Date" THEN date.iso
            ELSE <<>>
    IN  normalizedAdminId \o <<"_">> \o normalizedDate

getConversationCacheKey(adminId, date) ==
    LET normalizedAdminId == Trim(IF Truthy(adminId) THEN StringOf(adminId) ELSE <<>>)
        normalizedDate ==
            IF ~Truthy(date) THEN <<>>
            ELSE IF date.t = "string"
                 THEN LET trimmed == Trim(date.s)
                      IN  IF Includes(trimmed, "T") THEN BeforeT(trimmed) ELSE trimmed
            ELSE IF date.t = "Date" THEN BeforeT(date.iso)
            ELSE <<>>
    IN  normalizedAdminId \o <<"_">> \o normalizedDate

(***************************************************************************)
(* Payloads and cache records.                                             *)
(***************************************************************************)
NoPayload == [present |-> FALSE]
Payload(list, hasList, bytes) ==
    [present |-> TRUE, hasList |-> hasList, conversations |-> list, bytes |-> bytes]

\* data.conversations?.length || 0
ConversationCount(data) ==
    IF data.present /\ data.hasList THEN Len(data.conversations) ELSE 0

NoRecord == [present |-> FALSE]
Record(cacheKey, adminId, date, data, timestamp, expiresAt) ==
    [present |-> TRUE, cacheKey |-> cacheKey, adminId |-> adminId, date |-> date,
     data |-> data, timestamp |-> timestamp, expiresAt |-> expiresAt,
     conversationCount |-> ConversationCount(data)]

\* Length of the JSON text of a record: the envelope of its own fields plus the
\* text of the payload.
ENVELOPE_LENGTH == 160
JSONLength(rec) ==
    ENVELOPE_LENGTH + (IF rec.data.present THEN rec.data.bytes ELSE 0)

\* localStorage values: the absent item, a JSON text, or a text that does not parse.
NoItem == [kind |-> "none"]
JSONStringify(rec) == [kind |-> "json", value |-> rec, length |-> JSONLength(rec)]
ParseThrows(text) == text.kind # "json"
JSONParse(text) == text.value

\* localStorage keys
LSKey(prefix, rest) == [prefix |-> prefix, rest |-> rest]
IsCacheLSKey(k) == k.prefix \in {CONVERSATION_CACHE_PREFIX, LEGACY_CACHE_PREFIX}

\* cachedData.expiresAt && now > cachedData.expiresAt
IsExpired(rec, t) == rec.expiresAt # 0 /\ t > rec.expiresAt

\* a lookup without the structure check
DataMissingIgnored(rec) == FALSE

\* !cachedData.data
DataMissing(rec) == ~rec.data.present


(***************************************************************************)
(* Inputs of the calls and contents found in the stores at start-up.      *)
(***************************************************************************)
AdminA == Str(<<"a">>)
DateTime1 == Str(<<"1", "T", "0">>)
Date1 == Str(<<"1">>)
AdminIds == {Undefined, AdminA}
Dates == {Undefined, DateTime1, Date1}

P1 == Payload(<<"c1">>, TRUE, 100)
PNoList == Payload(<<>>, FALSE, 50)
PBig == Payload(<<"c1">>, TRUE, LOCALSTORAGE_ENTRY_LIMIT)
\* payloads whose record is exactly 2 MiB long, and one character longer
PExact == Payload(<<"c1">>, TRUE, LOCALSTORAGE_ENTRY_LIMIT - ENVELOPE_LENGTH)
POver == Payload(<<"c1">>, TRUE, LOCALSTORAGE_ENTRY_LIMIT - ENVELOPE_LENGTH + 1)
Payloads == {NoPayload, P1, PNoList, PBig}

\* The calls made: every payload under one owner and date, and each parameter
\* absent in turn; lookups by either form of the date and with a parameter absent.
StoreInputs ==
    {<<AdminA, DateTime1, P>> : P \in Payloads}
        \cup {<<Undefined, DateTime1, P1>>, <<AdminA, Undefined, P1>>}
LookupInputs ==
    {<<AdminA, Date1>>, <<AdminA, DateTime1>>, <<Undefined, Date1>>, <<AdminA, Undefined>>}

CacheKeys == {getConversationCacheKey(a, d) : a \in AdminIds, d \in Dates}
K1 == getConversationCacheKey(Str(<<"a">>), Str(<<"1">>))

USER_INFO_KEY == LSKey("", <<"u">>)
LEGACY_KEY == LSKey(LEGACY_CACHE_PREFIX, <<"o">>)
LSKeys == {LSKey(CONVERSATION_CACHE_PREFIX, k) : k \in CacheKeys} \cup {USER_INFO_KEY, LEGACY_KEY}

\* A record of an earlier session that was persisted without its payload.
CorruptRecord == Record(K1, <<"a">>, <<"1", "T", "0">>, NoPayload, 0, TTL)

EmptyIDB == [k \in CacheKeys |-> NoRecord]
InitialIDBs == {EmptyIDB, [EmptyIDB EXCEPT ![K1] = CorruptRecord]}

BaseLS ==
    [k \in LSKeys |->
        IF k = USER_INFO_KEY THEN [kind |-> "json", value |-> [name |-> "u"], length |-> 12]
        ELSE IF k = LEGACY_KEY THEN JSONStringify(Record(<<"o">>, <<"a">>, <<"0">>, P1, 0, TTL))
        ELSE NoItem]
InertLS == [k \in LSKeys |-> NoItem]
InitialLSs ==
    {BaseLS,
     [BaseLS EXCEPT ![LSKey(CONVERSATION_CACHE_PREFIX, K1)] = JSONStringify(CorruptRecord)],
     [BaseLS EXCEPT ![LSKey(CONVERSATION_CACHE_PREFIX, K1)] = [kind |-> "garbage"]]}

Procs == {"p1", "p2"}
NoProc == "none"

(***************************************************************************)
(* State.                                                                  *)
(***************************************************************************)
VARIABLES
    platformIDB,   \* typeof indexedDB !== 'undefined'
    lsInert,       \* localStorage accepts setItem but keeps nothing
    dbInstance,    \* "null" or "db"
    dbClosed,      \* the connection was closed: db.transaction() throws
    idb,           \* the object store: cacheKey -> record
    ls,            \* localStorage: key -> text
    queue,         \* requests issued to IndexedDB and not yet completed
    now,           \* Date.now()
    ticks,         \* number of clock steps taken
    pc, op, cacheKey, cacheData, stage, result,  \* per caller
    attempts,      \* per caller: setItem calls and sweeps of the current call
    fetch          \* fetchConversationsProgressively: its position and its locals

vars == <<platformIDB, lsInert, dbInstance, dbClosed, idb, ls, queue,
          now, ticks, pc, op, cacheKey, cacheData, stage, result, attempts, fetch>>

None == [t |-> "none"]
Null == [t |-> "null"]
Bool(b) == [t |-> "boolean", v |-> b]
Data(d) == [t |-> "data", v |-> d]
Raised == [t |-> "raised"]

\* A request to IndexedDB.  The delete requests of one transaction are one entry,
\* with the keys they delete: nobody listens to them, and an error of one of them
\* aborts the transaction and undoes the others.
\* A call of fetchConversationsProgressively before it starts: its position, its
\* locals hasMore and pageCount, and the number of pages it has received
NoLoad == [phase |-> "idle", pageCount |-> 0, hasMore |-> TRUE, pages |-> 0]
\* the page before its first load: the global allConversations (line 469) and the
\* calls of fetchConversationsProgressively, one per load
NoFetch == [allConversations |-> <<>>, load |-> [p \in Procs |-> NoLoad]]

NoAttempts == [setItem |-> 0, sweep |-> 0, first |-> "none"]
\* localStorage.setItem was called / clearOldCacheEntries was called for caller p
Attempted(att, p) == [att EXCEPT ![p].setItem = @ + 1]
Swept(att, p) == [att EXCEPT ![p].sweep = @ + 1]
\* how the first write of cacheToLocalStorage went: "written", "lost" (not found
\* on read-back), or the error it threw, "quota" or "error"
FirstWrite(att, p, how) == [att EXCEPT ![p].first = how]

Req(type, key, rec, proc) ==
    [type |-> type, key |-> key, rec |-> rec, proc |-> proc, keys |-> {}]
DeleteReq(keys) ==
    [type |-> "delete", key |-> <<>>, rec |-> NoRecord, proc |-> NoProc, keys |-> keys]

Init ==
    /\ platformIDB \in BOOLEAN
    /\ lsInert \in BOOLEAN
    /\ dbInstance = "null"
    /\ dbClosed = FALSE
    /\ idb \in (IF platformIDB THEN InitialIDBs ELSE {EmptyIDB})
    /\ ls \in (IF lsInert THEN {InertLS} ELSE InitialLSs)
    /\ queue = <<>>
    /\ now = 0
    /\ ticks = 0
    /\ pc = [p \in Procs |-> "idle"]
    /\ op = [p \in Procs |-> "none"]
    /\ cacheKey = [p \in Procs |-> <<>>]
    /\ cacheData = [p \in Procs |-> NoRecord]
    /\ stage = [p \in Procs |-> "main"]
    /\ result = [p \in Procs |-> None]
    /\ attempts = [p \in Procs |-> NoAttempts]
    /\ fetch = NoFetch

(***************************************************************************)
(* Helpers of the actions.                                                 *)
(***************************************************************************)
\* The caller p ends its call with res.
Finish(p, res) ==
    /\ pc' = [pc EXCEPT ![p] = "done"]
    /\ stage' = [stage EXCEPT ![p] = "main"]
    /\ result' = [result EXCEPT ![p] = res]

\* The caller p suspends until a request completes.
Wait(p, at, st) ==
    /\ pc' = [pc EXCEPT ![p] = at]
    /\ stage' = [stage EXCEPT ![p] = st]
    /\ result' = [result EXCEPT ![p] = None]

\* The promise the caller p awaits is never settled.
Hang(p) ==
    /\ pc' = [pc EXCEPT ![p] = "hung"]
    /\ stage' = [stage EXCEPT ![p] = "main"]
    /\ result' = [result EXCEPT ![p] = None]

\* a build that takes IndexedDB for granted
AlwaysAvailable == TRUE

INDEXEDDB_AVAILABLE == platformIDB

\* never opens the database: without a cached handle it reports null
GetDBSyncNeverOpens(inst) ==
    IF INDEXEDDB_AVAILABLE /\ inst # "null" THEN "db" ELSE "null"

\* getConversationCacheDB up to its await: null, the cached handle, or an open request.
GetDBSync(inst) ==
    IF ~INDEXEDDB_AVAILABLE THEN "null"
    ELSE IF inst # "null" THEN "db"
    ELSE "open"

Min(a, b) == IF a < b THEN a ELSE b

\* The sets of n newest keys: every kept key is at least as new as every dropped one.
KeepSets(keys, ts, n) ==
    {S \in SUBSET keys :
        /\ Cardinality(S) = Min(Cardinality(keys), n)
        /\ \A a \in S, b \in keys \ S : ts[a] >= ts[b]}

RECURSIVE SumOver(_, _)
SumOver(f, S) ==
    IF S = {} THEN 0
    ELSE LET x == CHOOSE y \in S : TRUE IN f[x] + SumOver(f, S \ {x})

\* a sweep that takes a text that does not parse for the newest entry
EntryTimestampUnparsedNewest(text) ==
    IF ParseThrows(text) THEN 2 * TTL
    ELSE IF "timestamp" \in DOMAIN JSONParse(text) THEN JSONParse(text).timestamp
    ELSE 0

\* parsed.timestamp || 0, and 0 for a text that does not parse
EntryTimestamp(text) ==
    IF ParseThrows(text) THEN 0
    ELSE IF "timestamp" \in DOMAIN JSONParse(text) THEN JSONParse(text).timestamp
    ELSE 0

\* a sweep over every key of localStorage, whatever its prefix
FlatSweepAnyPrefix(store) ==
    LET cacheKeys == {k \in DOMAIN store : store[k] # NoItem}
        ts == [k \in cacheKeys |-> EntryTimestamp(store[k])]
    IN  {[k \in DOMAIN store |-> IF k \in cacheKeys \ S THEN NoItem ELSE store[k]] :
            S \in KeepSets(cacheKeys, ts, LS_MAX_ENTRIES)}

\* clearOldCacheEntries, localStorage part: the stores the sweep can leave.
FlatSweep(store) ==
    LET cacheKeys == {k \in DOMAIN store : store[k] # NoItem /\ IsCacheLSKey(k)}
        ts == [k \in cacheKeys |-> EntryTimestamp(store[k])]
    IN  {[k \in DOMAIN store |-> IF k \in cacheKeys \ S THEN NoItem ELSE store[k]] :
            S \in KeepSets(cacheKeys, ts, LS_MAX_ENTRIES)}

\* UTF-16 code units of the characters that occur in keys
CodeUnit(c) ==
    CASE c = " " -> 32
      [] c = "0" -> 48 [] c = "1" -> 49 [] c = "2" -> 50 [] c = "3" -> 51
      [] c = "4" -> 52 [] c = "5" -> 53 [] c = "6" -> 54 [] c = "7" -> 55
      [] c = "8" -> 56 [] c = "9" -> 57
      [] c = "T" -> 84
      [] c = "_" -> 95
      [] c = "a" -> 97
      [] c = "o" -> 111
      [] OTHER -> 117

\* the order of IndexedDB string keys
RECURSIVE StringLess(_, _)
StringLess(s, t) ==
    IF t = <<>> THEN FALSE
    ELSE IF s = <<>> THEN TRUE
    ELSE IF Head(s) = Head(t) THEN StringLess(Tail(s), Tail(t))
    ELSE CodeUnit(Head(s)) < CodeUnit(Head(t))

\* index.openCursor(null, 'prev') on the timestamp index: by timestamp, then by
\* primary key, both descending
CursorBefore(store, a, b) ==
    \/ store[a].timestamp > store[b].timestamp
    \/ store[a].timestamp = store[b].timestamp /\ StringLess(b, a)

\* entries.slice(n): the records the cursor delivers after the first n, which are
\* those with at least n records before them
SliceKeys(store, keys, n) ==
    {k \in keys : Cardinality({j \in keys : CursorBefore(store, j, k)}) >= n}

\* a sweep without the rule of 50 / without the rule of 500 MiB
IDBSweepDeletesSizeOnly(store) ==
    LET keys == {k \in DOMAIN store : store[k].present}
        size == [k \in keys |-> JSONLength(store[k])]
        totalSize == SumOver(size, keys)
    IN  IF totalSize > IDB_SIZE_LIMIT /\ Cardinality(keys) > IDB_MAX_ENTRIES_LARGE
        THEN <<SliceKeys(store, keys, IDB_MAX_ENTRIES_LARGE)>> ELSE <<>>

IDBSweepDeletesCountOnly(store) ==
    LET keys == {k \in DOMAIN store : store[k].present}
    IN  IF Cardinality(keys) > IDB_MAX_ENTRIES
        THEN <<SliceKeys(store, keys, IDB_MAX_ENTRIES)>> ELSE <<>>

\* clearOldCacheEntries, IndexedDB part (lines 343-384): the delete transactions
\* the cursor handler starts, each with the keys it deletes.
IDBSweepDeletes(store) ==
    LET keys == {k \in DOMAIN store : store[k].present}
        size == [k \in keys |-> JSONLength(store[k])]
        totalSize == SumOver(size, keys)
    IN  (IF Cardinality(keys) > IDB_MAX_ENTRIES
         THEN <<SliceKeys(store, keys, IDB_MAX_ENTRIES)>> ELSE <<>>)
        \o (IF totalSize > IDB_SIZE_LIMIT /\ Cardinality(keys) > IDB_MAX_ENTRIES_LARGE
            THEN <<SliceKeys(store, keys, IDB_MAX_ENTRIES_LARGE)>> ELSE <<>>)

DeleteRequests(txs) == [i \in 1..Len(txs) |-> DeleteReq(txs[i])]

\* a read-back that is not looked at
VerifiedAlways(st, k) == TRUE

\* lines 289-293 and 308-312: the read-back after setItem
Verified(st, k) == st[k] # NoItem

\* localStorage.setItem on a store st
SetItem(st, k, text) == IF lsInert THEN st ELSE [st EXCEPT ![k] = text]
RemoveItem(st, k) == [st EXCEPT ![k] = NoItem]

\* cacheToLocalStorage, lines 304-318: the single retry after the sweep.
RetryWrite(p, rec, st, q, att) ==
    LET localStorageKey == LSKey(CONVERSATION_CACHE_PREFIX, rec.cacheKey)
    IN  \E throws \in BOOLEAN :
            /\ ls' = (IF throws THEN st ELSE SetItem(st, localStorageKey, JSONStringify(rec)))
            /\ queue' = q
            /\ attempts' = Attempted(att, p)
            /\ Finish(p, Bool(~throws /\ Verified(ls', localStorageKey)))

\* clearOldCacheEntries as called from cacheToLocalStorage, then the retry.
\* via: "direct" when cacheToLocalStorage was awaited by cacheConversations itself
\* (line 270), "handler" when by the put request's onerror handler (line 258).
ClearOldThenRetry(p, rec, via, q, inst, att) ==
    CASE GetDBSync(inst) = "null" ->
            \E swept \in FlatSweep(ls) : RetryWrite(p, rec, swept, q, Swept(att, p))
      [] GetDBSync(inst) = "db" ->
            IF dbClosed
            THEN \* db.transaction throws in the promise executor: the sweep rejects
                 /\ ls' = ls
                 /\ queue' = q
                 /\ attempts' = Swept(att, p)
                 /\ IF via = "handler" THEN Hang(p) ELSE Finish(p, Raised)
            ELSE /\ ls' = ls
                 /\ queue' = Append(q, Req("cursor", rec.cacheKey, NoRecord, p))
                 /\ attempts' = Swept(att, p)
                 /\ Wait(p, "sweep_wait", via)
      [] OTHER ->
            /\ ls' = ls
            /\ queue' = Append(q, Req("open", rec.cacheKey, NoRecord, p))
            /\ attempts' = Swept(att, p)
            /\ Wait(p, "open_wait", via)

\* a size check that also turns away a text of exactly the limit
TooLargeInclusive(cacheString) == cacheString.length >= LOCALSTORAGE_ENTRY_LIMIT

\* line 281: cacheString.length > 2 * 1024 * 1024
TooLarge(cacheString) == cacheString.length > LOCALSTORAGE_ENTRY_LIMIT

\* a handler that takes every error of setItem for quota-exceeded
IsQuotaExceededAnyError(outcome) == outcome \in {"quota", "error"}

\* line 300: error.name === 'QuotaExceededError' || error.code === 22
IsQuotaExceeded(outcome) == outcome = "quota"

\* cacheToLocalStorage
cacheToLocalStorage(p, rec, via, q, inst, att) ==
    LET localStorageKey == LSKey(CONVERSATION_CACHE_PREFIX, rec.cacheKey)
        cacheString == JSONStringify(rec)
    IN  IF TooLarge(cacheString)
        THEN /\ ls' = ls
             /\ queue' = q
             /\ attempts' = att
             /\ Finish(p, Bool(FALSE))
        ELSE \E outcome \in {"returns", "quota", "error"} :
                CASE outcome = "returns" ->
                        /\ ls' = SetItem(ls, localStorageKey, cacheString)
                        /\ queue' = q
                        /\ attempts' = FirstWrite(Attempted(att, p), p,
                                IF Verified(ls', localStorageKey) THEN "written" ELSE "lost")
                        /\ Finish(p, Bool(Verified(ls', localStorageKey)))
                  [] IsQuotaExceeded(outcome) ->
                        ClearOldThenRetry(p, rec, via, q, inst,
                                          FirstWrite(Attempted(att, p), p, outcome))
                  [] OTHER ->
                        /\ ls' = ls
                        /\ queue' = q
                        /\ attempts' = FirstWrite(Attempted(att, p), p, outcome)
                        /\ Finish(p, Bool(FALSE))

\* a lookup that removes the entry it returns
FlatLookupConsuming(p, key, q) ==
    LET localStorageKey == LSKey(CONVERSATION_CACHE_PREFIX, key)
        text == ls[localStorageKey]
    IN  /\ queue' = q
        /\ IF text = NoItem
           THEN ls' = ls /\ Finish(p, Null)
           ELSE IF ParseThrows(text)
           THEN ls' = ls /\ Finish(p, Null)
           ELSE LET parsed == JSONParse(text)
                IN  /\ IF IsExpired(parsed, now) \/ DataMissing(parsed)
                       THEN ls' = RemoveItem(ls, localStorageKey) /\ Finish(p, Null)
                       ELSE /\ ls' = RemoveItem(ls, localStorageKey)
                            /\ Finish(p, Data(parsed.data))

\* getCachedConversations, lines 159-193: the localStorage lookup.
FlatLookup(p, key, q) ==
    LET localStorageKey == LSKey(CONVERSATION_CACHE_PREFIX, key)
        text == ls[localStorageKey]
    IN  /\ queue' = q
        /\ IF text = NoItem
           THEN ls' = ls /\ Finish(p, Null)
           ELSE IF ParseThrows(text)
           THEN ls' = ls /\ Finish(p, Null)
           ELSE LET parsed == JSONParse(text)
                IN  /\ IF IsExpired(parsed, now) \/ DataMissing(parsed)
                       THEN ls' = RemoveItem(ls, localStorageKey) /\ Finish(p, Null)
                       ELSE ls' = ls /\ Finish(p, Data(parsed.data))

\* Lines 245-247 / 112-114: start a transaction and issue the request; a closed
\* connection makes db.transaction throw inside the promise executor, which rejects
\* the promise the async function returns.
IssueOrRaise(p, type, key, rec, at, q) ==
    IF dbClosed
    THEN queue' = q /\ Finish(p, Raised)
    ELSE queue' = Append(q, Req(type, key, rec, p)) /\ Wait(p, at, "main")

(***************************************************************************)
(* Calls.                                                                  *)
(***************************************************************************)
Callable(p) == pc[p] \in {"idle", "done"}
\* the last call of p was a store / a lookup and has completed
StoreDone(p) == op[p] = "store" /\ pc[p] = "done"
LookupDone(p) == op[p] = "lookup" /\ pc[p] = "done"

\* a validation that forgets the payload
MissingParametersIgnoresData(adminId, date, data) ==
    ~Truthy(adminId) \/ ~Truthy(date)

\* line 220: !adminId || !date || !data
MissingParameters(adminId, date, data) ==
    ~Truthy(adminId) \/ ~Truthy(date) \/ ~data.present

\* cacheConversations up to its first suspension
StoreCall(p, adminId, date, data) ==
    /\ Callable(p)
    /\ op' = [op EXCEPT ![p] = "store"]
    /\ UNCHANGED <<platformIDB, lsInert, dbInstance, dbClosed, idb>>
    /\ IF MissingParameters(adminId, date, data)
       THEN /\ Finish(p, Bool(FALSE))
            /\ cacheKey' = [cacheKey EXCEPT ![p] = <<>>]
            /\ cacheData' = [cacheData EXCEPT ![p] = NoRecord]
            /\ attempts' = [attempts EXCEPT ![p] = NoAttempts]
            /\ UNCHANGED <<ls, queue, now, ticks>>
       ELSE \E dt \in {0, 1} :
            LET key == getConversationCacheKey(adminId, date)
                expiresAt == now + TTL                 \* line 228
                timestamp == now + dt                  \* line 235, a later Date.now()
                rec == Record(key, StringOf(adminId), StringOf(date), data,
                              timestamp, expiresAt)
            IN  /\ ticks + dt <= MaxTicks
                /\ now' = now + dt
                /\ ticks' = ticks + dt
                /\ cacheKey' = [cacheKey EXCEPT ![p] = key]
                /\ cacheData' = [cacheData EXCEPT ![p] = rec]
                /\ CASE GetDBSync(dbInstance) = "null" ->
                            cacheToLocalStorage(p, rec, "direct", queue, dbInstance,
                                                [attempts EXCEPT ![p] = NoAttempts])
                     [] GetDBSync(dbInstance) = "db" ->
                            /\ ls' = ls
                            /\ attempts' = [attempts EXCEPT ![p] = NoAttempts]
                            /\ IssueOrRaise(p, "put", key, rec, "put_wait", queue)
                     [] OTHER ->
                            /\ ls' = ls
                            /\ attempts' = [attempts EXCEPT ![p] = NoAttempts]
                            /\ queue' = Append(queue, Req("open", key, NoRecord, p))
                            /\ Wait(p, "open_wait", "main")

\* getCachedConversations up to its first suspension
LookupCall(p, adminId, date) ==
    /\ Callable(p)
    /\ op' = [op EXCEPT ![p] = "lookup"]
    /\ UNCHANGED <<platformIDB, lsInert, dbInstance, dbClosed, idb, now, ticks,
                   cacheData>>
    /\ attempts' = [attempts EXCEPT ![p] = NoAttempts]
    /\ LET key == getConversationCacheKey(adminId, date)
       IN  /\ cacheKey' = [cacheKey EXCEPT ![p] = key]
           /\ CASE GetDBSync(dbInstance) = "null" -> FlatLookup(p, key, queue)
                [] GetDBSync(dbInstance) = "db" ->
                       /\ ls' = ls
                       /\ IssueOrRaise(p, "get", key, NoRecord, "get_wait", queue)
                [] OTHER ->
                       /\ ls' = ls
                       /\ queue' = Append(queue, Req("open", key, NoRecord, p))
                       /\ Wait(p, "open_wait", "main")

(***************************************************************************)
(* Completions of IndexedDB requests.                                      *)
(***************************************************************************)
HeadIs(type) == queue # <<>> /\ Head(queue).type = type

\* indexedDB.open completes: initConversationCacheDB resolves or rejects, and
\* getConversationCacheDB returns the handle or null to its caller.
OpenComplete(ok) ==
    /\ HeadIs("open")
    /\ LET p == Head(queue).proc
           q == Tail(queue)
           inst == IF ok THEN "db" ELSE dbInstance
       IN  /\ dbInstance' = inst
           /\ dbClosed' = (IF ok THEN FALSE ELSE dbClosed)
           /\ UNCHANGED <<platformIDB, lsInert, idb, now, ticks, op, cacheKey, cacheData, fetch>>
           /\ CASE stage[p] # "main" ->
                    \* the open of the sweep (line 324)
                    /\ IF ok
                       THEN /\ ls' = ls
                            /\ attempts' = attempts
                            /\ queue' = Append(q, Req("cursor", cacheKey[p], NoRecord, p))
                            /\ Wait(p, "sweep_wait", stage[p])
                       ELSE \E swept \in FlatSweep(ls) :
                                RetryWrite(p, cacheData[p], swept, q, attempts)
                [] stage[p] = "main" /\ op[p] = "store" ->
                    /\ IF ok
                       THEN /\ ls' = ls
                            /\ attempts' = attempts
                            /\ queue' = Append(q, Req("put", cacheKey[p], cacheData[p], p))
                            /\ Wait(p, "put_wait", "main")
                       ELSE cacheToLocalStorage(p, cacheData[p], "direct", q, inst, attempts)
                [] OTHER ->
                    /\ attempts' = attempts
                    /\ IF ok
                       THEN /\ ls' = ls
                            /\ queue' = Append(q, Req("get", cacheKey[p], NoRecord, p))
                            /\ Wait(p, "get_wait", "main")
                       ELSE FlatLookup(p, cacheKey[p], q)

\* a store that keeps the write-time of the record it replaces
PutRecordKeepsWriteTime(old, rec) ==
    IF old.present THEN [rec EXCEPT !.timestamp = old.timestamp] ELSE rec

\* store.put(cacheData) on the object store keyed by cacheKey (line 247): the
\* record under the key is replaced as a whole
PutRecord(old, rec) == rec

\* store.put completes (lines 249-260)
PutComplete(ok) ==
    /\ HeadIs("put")
    /\ ok => ~dbClosed
    /\ LET p == Head(queue).proc
           rec == Head(queue).rec
           q == Tail(queue)
       IN  /\ UNCHANGED <<platformIDB, lsInert, dbInstance, dbClosed, now,
                          ticks, op, cacheKey, cacheData, fetch>>
           /\ IF ok
              THEN /\ idb' = [idb EXCEPT ![rec.cacheKey] = PutRecord(@, rec)]
                   /\ ls' = ls
                   /\ queue' = q
                   /\ attempts' = attempts
                   /\ Finish(p, Bool(TRUE))
              ELSE /\ idb' = idb
                   /\ cacheToLocalStorage(p, rec, "handler", q, dbInstance, attempts)

\* deleteCachedConversation (lines 197-215), called and not awaited
Purge(key, q) ==
    /\ queue' = (IF dbClosed THEN q ELSE Append(q, DeleteReq({key})))
    /\ ls' = RemoveItem(ls, LSKey(CONVERSATION_CACHE_PREFIX, key))

\* store.get completes (lines 116-151)
GetComplete(ok) ==
    /\ HeadIs("get")
    /\ ok => ~dbClosed
    /\ LET p == Head(queue).proc
           key == Head(queue).key
           q == Tail(queue)
           cachedData == idb[key]
       IN  /\ UNCHANGED <<platformIDB, lsInert, dbInstance, dbClosed, idb, now,
                          ticks, op, cacheKey, cacheData, attempts, fetch>>
           /\ IF ~ok
              THEN /\ ls' = ls /\ queue' = q /\ Finish(p, Null)
              ELSE /\ IF ~cachedData.present
                      THEN ls' = ls /\ queue' = q /\ Finish(p, Null)
                      ELSE IF IsExpired(cachedData, now) \/ DataMissing(cachedData)
                      THEN Purge(key, q) /\ Finish(p, Null)
                      ELSE ls' = ls /\ queue' = q /\ Finish(p, Data(cachedData.data))

\* a transaction of delete requests commits or aborts; nobody listens to it
DeleteComplete(ok) ==
    /\ HeadIs("delete")
    /\ ok => ~dbClosed
    /\ idb' = (IF ok
               THEN [k \in DOMAIN idb |-> IF k \in Head(queue).keys THEN NoRecord ELSE idb[k]]
               ELSE idb)
    /\ queue' = Tail(queue)
    /\ UNCHANGED <<platformIDB, lsInert, dbInstance, dbClosed, ls, now, ticks,
                   pc, op, cacheKey, cacheData, stage, result, attempts, fetch>>

\* the cursor over the timestamp index has delivered every record, or failed
\* (lines 337-393); then cacheToLocalStorage retries
CursorComplete(ok) ==
    /\ HeadIs("cursor")
    /\ ok => ~dbClosed
    /\ LET p == Head(queue).proc
           q == Tail(queue)
       IN  /\ UNCHANGED <<platformIDB, lsInert, dbInstance, dbClosed, idb, now,
                          ticks, op, cacheKey, cacheData, fetch>>
           /\ IF ok
              THEN RetryWrite(p, cacheData[p], ls,
                              q \o DeleteRequests(IDBSweepDeletes(idb)), attempts)
              ELSE RetryWrite(p, cacheData[p], ls, q, attempts)

(***************************************************************************)
(* Environment.                                                            *)
(***************************************************************************)
Tick(d) ==
    /\ ticks < MaxTicks
    /\ now' = now + d
    /\ ticks' = ticks + 1
    /\ UNCHANGED <<platformIDB, lsInert, dbInstance, dbClosed, idb, ls, queue,
                   pc, op, cacheKey, cacheData, stage, result, attempts, fetch>>

\* the browser closes the connection
CloseDB ==
    /\ dbInstance = "db"
    /\ ~dbClosed
    /\ dbClosed' = TRUE
    /\ UNCHANGED <<platformIDB, lsInert, dbInstance, idb, ls, queue, now, ticks,
                   pc, op, cacheKey, cacheData, stage, result, attempts, fetch>>

Caller == "p1"

Next ==
    \/ \E in \in StoreInputs : StoreCall(Caller, in[1], in[2], in[3]) /\ UNCHANGED fetch
    \/ \E in \in LookupInputs : LookupCall(Caller, in[1], in[2]) /\ UNCHANGED fetch
    \/ \E ok \in BOOLEAN : OpenComplete(ok)
    \/ \E ok \in BOOLEAN : PutComplete(ok)
    \/ \E ok \in BOOLEAN : GetComplete(ok)
    \/ \E ok \in BOOLEAN : DeleteComplete(ok)
    \/ \E ok \in BOOLEAN : CursorComplete(ok)
    \/ \E d \in {1, TTL} : Tick(d)
    \/ CloseDB

Spec == Init /\ [][Next]_vars

\* Every request issued to IndexedDB completes, with success or with an error.
RequestsComplete ==
    /\ WF_vars(\E ok \in BOOLEAN : OpenComplete(ok))
    /\ WF_vars(\E ok \in BOOLEAN : PutComplete(ok))
    /\ WF_vars(\E ok \in BOOLEAN : GetComplete(ok))
    /\ WF_vars(\E ok \in BOOLEAN : DeleteComplete(ok))
    /\ WF_vars(\E ok \in BOOLEAN : CursorComplete(ok))

SpecFair == Spec /\ RequestsComplete

(***************************************************************************)
(* The stores as earlier sessions left them: full enough for the eviction *)
(* sweep to have something to delete.  The records are those of an owner  *)
(* "o" for the dates "01", "02", ..., written two per millisecond from     *)
(* time 1 on; the session starts at StartTime.                             *)
(***************************************************************************)
StartTime == 100
SMALL_PAYLOAD == 100
LARGE_PAYLOAD == 20 * 1024 * 1024

Digit(d) == <<"0", "1", "2", "3", "4", "5", "6", "7", "8", "9">>[d + 1]
OldDate(i) == <<Digit(i \div 10), Digit(i % 10)>>
OldKey(i) == <<"o", "_">> \o OldDate(i)
OldRecord(i, bytes) ==
    Record(OldKey(i), <<"o">>, OldDate(i), Payload(<<>>, TRUE, bytes),
           (i + 1) \div 2, (i + 1) \div 2 + TTL)

\* the structured tier with n records of the given payload size
PopulatedIDB(n, bytes) ==
    [k \in CacheKeys \cup {OldKey(i) : i \in 1..n} |->
        IF k \in CacheKeys THEN NoRecord
        ELSE OldRecord(CHOOSE i \in 1..n : OldKey(i) = k, bytes)]

SweepIDBs ==
    {PopulatedIDB(n, SMALL_PAYLOAD) : n \in {IDB_MAX_ENTRIES, IDB_MAX_ENTRIES + 1, MaxRecords}}
        \cup {PopulatedIDB(n, LARGE_PAYLOAD) :
                n \in {IDB_MAX_ENTRIES_LARGE, IDB_MAX_ENTRIES_LARGE + 1, MaxRecords}}

\* the flat tier with m cache entries: one that does not parse, one under the
\* legacy prefix, the others under the prefix
PopulatedLS(m) ==
    [k \in LSKeys \cup {LSKey(CONVERSATION_CACHE_PREFIX, OldKey(i)) : i \in 1..(m - 1)} |->
        IF k \in LSKeys THEN BaseLS[k]
        ELSE LET i == CHOOSE j \in 1..(m - 1) : OldKey(j) = k.rest
             IN  IF i = 1 THEN [kind |-> "garbage"]
                 ELSE JSONStringify(OldRecord(i, SMALL_PAYLOAD))]

SweepLSs == {PopulatedLS(m) : m \in {LS_MAX_ENTRIES, LS_MAX_ENTRIES + 1, MaxEntries}}

InitSweep ==
    /\ platformIDB \in BOOLEAN
    /\ lsInert = FALSE
    /\ dbInstance = "null"
    /\ dbClosed = FALSE
    /\ idb \in (IF platformIDB THEN SweepIDBs ELSE {EmptyIDB})
    /\ ls \in (IF platformIDB THEN {PopulatedLS(MaxEntries)} ELSE SweepLSs)
    /\ queue = <<>>
    /\ now = StartTime
    /\ ticks = MaxTicks - 1      \* the clock steps once more in this session
    /\ pc = [p \in Procs |-> "idle"]
    /\ op = [p \in Procs |-> "none"]
    /\ cacheKey = [p \in Procs |-> <<>>]
    /\ cacheData = [p \in Procs |-> NoRecord]
    /\ stage = [p \in Procs |-> "main"]
    /\ result = [p \in Procs |-> None]
    /\ attempts = [p \in Procs |-> NoAttempts]
    /\ fetch = NoFetch

NextSweep ==
    \/ StoreCall(Caller, AdminA, DateTime1, P1) /\ UNCHANGED fetch
    \/ \E ok \in BOOLEAN : OpenComplete(ok)
    \/ \E ok \in BOOLEAN : PutComplete(ok)
    \/ \E ok \in BOOLEAN : DeleteComplete(ok)
    \/ \E ok \in BOOLEAN : CursorComplete(ok)

SpecSweep == InitSweep /\ [][NextSweep]_vars

(***************************************************************************)
(* The fetch orchestrator: loadConversations and                           *)
(* fetchConversationsProgressively.  One step runs from one await to the  *)
(* next: the lookup, each page of the remote, the write-through.          *)
(***************************************************************************)
MAX_PAGES == 100
PAGE_LENGTH == 100

\* What the remote answers to a page request: an error, or a page that is empty
\* or not, with has_more.  An empty page comes with has_more false.
PageResponses ==
    {[ok |-> FALSE, empty |-> TRUE, has_more |-> FALSE],
     [ok |-> TRUE, empty |-> TRUE, has_more |-> FALSE],
     [ok |-> TRUE, empty |-> FALSE, has_more |-> FALSE],
     [ok |-> TRUE, empty |-> FALSE, has_more |-> TRUE]}

\* The date each load was started for, and a conversation of the result set of
\* that date; every page that is not empty holds one conversation.
Date2 == Str(<<"2">>)
SelectedDate == [p1 |-> Date1, p2 |-> Date2]
Conversation == [p1 |-> "c1", p2 |-> "c2"]

\* allFetchedData with the conversations gathered (lines 671-677, 873-874)
FetchedData(all) == Payload(all, TRUE, PAGE_LENGTH * Len(all))

CacheVars == <<platformIDB, lsInert, dbInstance, dbClosed, idb, ls, queue,
               now, ticks, pc, op, cacheKey, cacheData, stage, result, attempts>>

\* loadConversations up to the await of the lookup (lines 899-949, 611-613);
\* each load is started once
LoadConversations(p) ==
    /\ fetch.load[p].phase = "idle"
    /\ fetch' = [fetch EXCEPT !.allConversations = <<>>,
                              !.load[p] = [NoLoad EXCEPT !.phase = "lookup"]]
    /\ LookupCall(p, AdminA, SelectedDate[p])

\* lines 614-709: the lookup has returned; on a hit the cached conversations are
\* shown, on a miss the first page is requested
AfterLookup(p) ==
    /\ fetch.load[p].phase = "lookup"
    /\ LookupDone(p)
    /\ fetch' = (CASE result[p].t = "data" ->
                        [fetch EXCEPT !.load[p].phase = "hit",
                                      !.allConversations =
                                          IF result[p].v.hasList
                                          THEN result[p].v.conversations ELSE <<>>]
                   [] result[p].t = "null" ->
                        [fetch EXCEPT !.load[p].phase = "fetching",
                                      !.load[p].pageCount = 1]
                   [] OTHER -> [fetch EXCEPT !.load[p].phase = "failed"])
    /\ UNCHANGED CacheVars

\* lines 709-875: the answer to a page request arrives; its conversations are
\* appended to allConversations, and the loop goes on to the next page, or ends
\* and the result is written through
PageArrives(p, resp) ==
    /\ fetch.load[p].phase = "fetching"
    /\ IF ~resp.ok
       THEN /\ fetch' = [fetch EXCEPT !.load[p].phase = "fetch_failed"]
            /\ UNCHANGED CacheVars
       ELSE LET pages == IF resp.empty THEN fetch.load[p].pages
                         ELSE fetch.load[p].pages + 1
                all == IF resp.empty THEN fetch.allConversations
                       ELSE Append(fetch.allConversations, Conversation[p])
                hasMore == IF resp.empty THEN FALSE ELSE resp.has_more
            IN  IF ~resp.empty /\ hasMore /\ fetch.load[p].pageCount < MAX_PAGES
                THEN /\ fetch' = [fetch EXCEPT !.allConversations = all,
                                               !.load[p].pageCount = @ + 1,
                                               !.load[p].pages = pages,
                                               !.load[p].hasMore = hasMore]
                     /\ UNCHANGED CacheVars
                ELSE /\ fetch' = [fetch EXCEPT !.allConversations = all,
                                               !.load[p].phase = "storing",
                                               !.load[p].pages = pages,
                                               !.load[p].hasMore = hasMore]
                     /\ StoreCall(p, AdminA, SelectedDate[p], FetchedData(all))

\* lines 877-: the write-through has returned
AfterStore(p) ==
    /\ fetch.load[p].phase = "storing"
    /\ StoreDone(p)
    /\ fetch' = [fetch EXCEPT !.load[p].phase =
                    IF result[p].t = "boolean" THEN "finished" ELSE "failed"]
    /\ UNCHANGED CacheVars

\* A record of an earlier session that is still valid.
ValidRecord == Record(K1, <<"a">>, <<"1">>, P1, 0, TTL)

InitFetch ==
    /\ Init
    /\ ~lsInert
    /\ idb \in {EmptyIDB} \cup (IF platformIDB THEN {[EmptyIDB EXCEPT ![K1] = ValidRecord]} ELSE {})
    /\ ls = BaseLS

NextFetch ==
    \/ LoadConversations(Caller)
    \/ AfterLookup(Caller)
    \/ \E resp \in PageResponses : PageArrives(Caller, resp)
    \/ AfterStore(Caller)
    \/ \E ok \in BOOLEAN : OpenComplete(ok)
    \/ \E ok \in BOOLEAN : PutComplete(ok)
    \/ \E ok \in BOOLEAN : GetComplete(ok)
    \/ \E ok \in BOOLEAN : CursorComplete(ok)

SpecFetch == InitFetch /\ [][NextFetch]_vars

\* Two loads in flight: the date is changed while the first load is still
\* fetching, and loadConversations, which has no re-entrancy guard, starts the
\* second (lines 1507, 1523).  The platform has no IndexedDB, so the cache calls
\* complete in one step; the remote has at most MaxPages pages per date; the
\* clock stands still.
K2 == getConversationCacheKey(AdminA, Date2)

OverlapResponses(p) ==
    {r \in PageResponses : r.has_more => fetch.load[p].pageCount < MaxPages}

InitOverlap ==
    /\ platformIDB = FALSE
    /\ lsInert = FALSE
    /\ dbInstance = "null"
    /\ dbClosed = FALSE
    /\ idb = EmptyIDB
    /\ ls = [k \in LSKeys \cup {LSKey(CONVERSATION_CACHE_PREFIX, K2)} |->
                IF k \in LSKeys THEN BaseLS[k] ELSE NoItem]
    /\ queue = <<>>
    /\ now = 0
    /\ ticks = MaxTicks
    /\ pc = [p \in Procs |-> "idle"]
    /\ op = [p \in Procs |-> "none"]
    /\ cacheKey = [p \in Procs |-> <<>>]
    /\ cacheData = [p \in Procs |-> NoRecord]
    /\ stage = [p \in Procs |-> "main"]
    /\ result = [p \in Procs |-> None]
    /\ attempts = [p \in Procs |-> NoAttempts]
    /\ fetch = NoFetch

NextOverlap ==
    \/ \E p \in Procs : LoadConversations(p)
    \/ \E p \in Procs : AfterLookup(p)
    \/ \E p \in Procs : \E resp \in OverlapResponses(p) : PageArrives(p, resp)
    \/ \E p \in Procs : AfterStore(p)

SpecOverlap == InitOverlap /\ [][NextOverlap]_vars

\* Stores of records at the size limit of the flat tier, into empty stores.
BoundaryPayloads == {PExact, POver}

InitBoundary ==
    /\ Init
    /\ ~lsInert
    /\ idb = EmptyIDB
    /\ ls = BaseLS

NextBoundary ==
    \/ \E P \in BoundaryPayloads : StoreCall(Caller, AdminA, DateTime1, P) /\ UNCHANGED fetch
    \/ \E ok \in BOOLEAN : OpenComplete(ok)
    \/ \E ok \in BOOLEAN : PutComplete(ok)
    \/ \E ok \in BOOLEAN : CursorComplete(ok)
    \/ CloseDB

SpecBoundary == InitBoundary /\ [][NextBoundary]_vars

\* The page with a second load in flight: loadConversations has no re-entrancy
\* guard, so a click or a date change starts another lookup or write-through
\* while the calls of the first load are suspended.  Both loads are for the same
\* owner and date, on a platform with IndexedDB and a working localStorage whose
\* connection stays open; the payloads the two loads fetched differ.
ConcurrentPayload == [p1 |-> P1, p2 |-> PNoList]
ConcurrentLookupInputs == {<<AdminA, Date1>>}

InitConcurrent ==
    /\ Init
    /\ platformIDB
    /\ ~lsInert
    /\ idb = EmptyIDB
    /\ ls = BaseLS

NextConcurrent ==
    \/ \E p \in Procs : StoreCall(p, AdminA, DateTime1, ConcurrentPayload[p]) /\ UNCHANGED fetch
    \/ \E p \in Procs, in \in ConcurrentLookupInputs :
            LookupCall(p, in[1], in[2]) /\ UNCHANGED fetch
    \/ \E ok \in BOOLEAN : OpenComplete(ok)
    \/ \E ok \in BOOLEAN : PutComplete(ok)
    \/ \E ok \in BOOLEAN : GetComplete(ok)
    \/ \E ok \in BOOLEAN : DeleteComplete(ok)
    \/ \E ok \in BOOLEAN : CursorComplete(ok)
    \/ Tick(TTL)

SpecConcurrent == InitConcurrent /\ [][NextConcurrent]_vars

(***************************************************************************)
(* Stores under several spellings of the owner and of the date, on a      *)
(* platform without IndexedDB: the records land in the flat tier under    *)
(* the key getConversationCacheKey gives them.  A calendar date is two    *)
(* digits here; the clock stands still.                                   *)
(***************************************************************************)
KeyDays == {<<"0", "1">>, <<"0", "2">>}
KeyOwners == {Str(<<"a">>), Str(<<" ", "a", " ">>), Str(<<"a", "_", "0", "1">>)}
\* each date as "YYYY-MM-DD" and as a date-time, one with blanks around it
KeyDates ==
    {Str(d) : d \in KeyDays} \cup {Str(d \o <<"T", "0">>) : d \in KeyDays}
        \cup {Str(<<" ", "0", "1", " ">>)}

KeyLSKeys ==
    {LSKey(CONVERSATION_CACHE_PREFIX, getConversationCacheKey(o, d)) :
        o \in KeyOwners, d \in KeyDates}

InitKey ==
    /\ platformIDB = FALSE
    /\ lsInert = FALSE
    /\ dbInstance = "null"
    /\ dbClosed = FALSE
    /\ idb = EmptyIDB
    /\ ls = [k \in KeyLSKeys \cup {USER_INFO_KEY} |-> IF k = USER_INFO_KEY THEN BaseLS[k] ELSE NoItem]
    /\ queue = <<>>
    /\ now = 0
    /\ ticks = MaxTicks
    /\ pc = [p \in Procs |-> "idle"]
    /\ op = [p \in Procs |-> "none"]
    /\ cacheKey = [p \in Procs |-> <<>>]
    /\ cacheData = [p \in Procs |-> NoRecord]
    /\ stage = [p \in Procs |-> "main"]
    /\ result = [p \in Procs |-> None]
    /\ attempts = [p \in Procs |-> NoAttempts]
    /\ fetch = NoFetch

NextKey ==
    \E o \in KeyOwners, d \in KeyDates : StoreCall(Caller, o, d, P1) /\ UNCHANGED fetch

SpecKey == InitKey /\ [][NextKey]_vars

(***************************************************************************)
(* Vocabulary of the properties.                                           *)
(***************************************************************************)
CacheLSKey(key) == LSKey(CONVERSATION_CACHE_PREFIX, key)
WaitStates == {"open_wait", "put_wait", "get_wait", "sweep_wait"}

\* The step starts a store that passes validation / starts a lookup.
StoreStarts(p) ==
    \E in \in StoreInputs :
        /\ Truthy(in[1]) /\ Truthy(in[2]) /\ in[3].present
        /\ StoreCall(p, in[1], in[2], in[3])
LookupStarts(p) == \E in \in LookupInputs : LookupCall(p, in[1], in[2])

\* The step is the one in which the store / the lookup of p returns.
StoreReturns(p) ==
    /\ op'[p] = "store" /\ pc'[p] = "done"
    /\ \/ \E in \in StoreInputs : StoreCall(p, in[1], in[2], in[3])
       \/ op[p] = "store" /\ pc[p] \in WaitStates
LookupReturns(p) ==
    /\ op'[p] = "lookup" /\ pc'[p] = "done"
    /\ \/ LookupStarts(p)
       \/ op[p] = "lookup" /\ pc[p] \in WaitStates

HasOpen(q) == \E i \in 1..Len(q) : q[i].type = "open"
OpenCount(q) == Cardinality({i \in 1..Len(q) : q[i].type = "open"})
HasDelete(q, key) == \E i \in 1..Len(q) : q[i].type = "delete" /\ key \in q[i].keys

\* The keys of the cache entries of a flat store.
FlatCacheKeys(store) == {k \in DOMAIN store : store[k] # NoItem /\ IsCacheLSKey(k)}

\* The keys of the records of a structured store, and the length of their texts.
PresentKeys(store) == {k \in DOMAIN store : store[k].present}
TotalSize(store) ==
    SumOver([k \in PresentKeys(store) |-> JSONLength(store[k])], PresentKeys(store))

\* The records under the keys S are at least as new as all other records.
NewestRecords(store, S) ==
    \A a \in S, b \in PresentKeys(store) \ S : store[a].timestamp >= store[b].timestamp

\* The step is a sweep of the structured tier: the cursor has delivered all records.
IDBSweepStep == HeadIs("cursor") /\ CursorComplete(TRUE)
\* The keys of the delete requests the step has issued.
KeysToDelete == UNION {queue'[i].keys : i \in Len(queue)..Len(queue')}
\* The step commits a transaction of delete requests, which removes its keys only.
DeleteCommits ==
    (HeadIs("delete") /\ DeleteComplete(TRUE))
    => \A k \in DOMAIN idb :
            idb'[k] = (IF k \in Head(queue).keys THEN NoRecord ELSE idb[k])

\* The flat tier holds a record for key that a lookup at time t would return.
FlatValid(key, t) ==
    LET text == ls[CacheLSKey(key)]
    IN  /\ text.kind = "json"
        /\ ~IsExpired(JSONParse(text), t)
        /\ ~DataMissing(JSONParse(text))

\* A tier holds a record for key whose payload is P.
HoldsPayload(key, P) ==
    \/ idb[key].present /\ idb[key].data = P
    \/ ls[CacheLSKey(key)].kind = "json" /\ JSONParse(ls[CacheLSKey(key)]).data = P

(***************************************************************************)
(* C1.  Round trip: a payload with a list field of at most 2 MiB that a   *)
(* store has put into a tier is returned by the lookup of the same owner  *)
(* and date that follows.  Stated for the tier state "structured tier     *)
(* open, its write failed, store fell back to the flat tier": while the   *)
(* record the last store built is the flat tier's entry and has not       *)
(* expired, a completed lookup of its key has returned its payload.       *)
(***************************************************************************)
C1_RoundTrip ==
    \A p \in Procs :
        ( /\ LookupDone(p)
          /\ cacheData[p].present
          /\ cacheData[p].cacheKey = cacheKey[p]
          /\ cacheData[p].data.hasList
          /\ cacheData[p].data.bytes <= LOCALSTORAGE_ENTRY_LIMIT
          /\ now <= cacheData[p].expiresAt
          /\ dbInstance = "db" /\ ~dbClosed
          /\ ls[CacheLSKey(cacheKey[p])] = JSONStringify(cacheData[p]) )
        => result[p] = Data(cacheData[p].data)

(***************************************************************************)
(* C2.  store returns true if and only if, when it completes, a record    *)
(* for the key holding P is present in the structured or the flat tier.   *)
(***************************************************************************)
C2_TrueIffPresent ==
    \A p \in Procs :
        (StoreDone(p) /\ cacheData[p].present)
        => (result[p] = Bool(TRUE) <=> HoldsPayload(cacheKey[p], cacheData[p].data))

\* C2 as amended: store returns true only if the record it built is, when it
\* completes, the structured tier's record or the flat tier's entry for the key;
\* and a store that returns false has written nothing (the structured tier is
\* unchanged by its last step and no flat entry was set, though entries may have
\* been swept), whatever earlier stores left behind.
C2_TrueOnlyIfWritten ==
    /\ [](\A p \in Procs :
            (StoreDone(p) /\ result[p] = Bool(TRUE))
            => \/ idb[cacheKey[p]] = cacheData[p]
               \/ ls[CacheLSKey(cacheKey[p])] = JSONStringify(cacheData[p]))
    /\ [][\A p \in Procs :
            (result'[p] = Bool(FALSE) /\ StoreReturns(p))
            => /\ idb' = idb
               /\ \A k \in LSKeys : ls'[k] \in {ls[k], NoItem}]_vars

C2_Witness ==
    /\ StoreDone(Caller)
    /\ result[Caller] = Bool(TRUE)
    /\ dbInstance = "db"
    /\ idb[cacheKey[Caller]] # cacheData[Caller]
    /\ ls[CacheLSKey(cacheKey[Caller])] = JSONStringify(cacheData[Caller])

(***************************************************************************)
(* C3.  With the structured tier open, a lookup that misses there goes on *)
(* to the flat tier: it returns absent only when the flat tier has no     *)
(* present, unexpired and valid record for the key either.                *)
(***************************************************************************)
C3_FlatConsulted ==
    \A p \in Procs :
        (LookupDone(p) /\ dbInstance = "db" /\ result[p] = Null)
        => ~FlatValid(cacheKey[p], now)

(***************************************************************************)
(* C4.  Expiry: a lookup that reads a record written at time T returns    *)
(* its payload when now <= T + 24h and absent when now > T + 24h.         *)
(***************************************************************************)
C4_Expiry ==
    [][\A p \in Procs :
        /\ (HeadIs("get") /\ Head(queue).proc = p /\ GetComplete(TRUE)
                /\ idb[Head(queue).key].present /\ ~DataMissing(idb[Head(queue).key]))
           => LET r == idb[Head(queue).key]
              IN  result'[p] = (IF now <= r.timestamp + TTL THEN Data(r.data) ELSE Null)
        /\ (LookupReturns(p) /\ ~HeadIs("get") /\ dbInstance' = "null"
                /\ ls[CacheLSKey(cacheKey'[p])].kind = "json"
                /\ ~DataMissing(JSONParse(ls[CacheLSKey(cacheKey'[p])])))
           => LET r == JSONParse(ls[CacheLSKey(cacheKey'[p])])
              IN  result'[p] = (IF now <= r.timestamp + TTL THEN Data(r.data) ELSE Null)
      ]_vars

(***************************************************************************)
(* C5.  Every record store builds has expiresAt = writtenAt + 24h, however *)
(* the clock advances while store runs.                                    *)
(***************************************************************************)
C5_ExactTTL ==
    \A p \in Procs :
        cacheData[p].present => cacheData[p].expiresAt = cacheData[p].timestamp + TTL

C7_RejectIsNoOp ==
    [][\A p \in Procs, in \in StoreInputs :
        ( /\ ~Truthy(in[1]) \/ ~Truthy(in[2]) \/ ~in[3].present
          /\ StoreCall(p, in[1], in[2], in[3]) )
        => /\ pc'[p] = "done"
           /\ result'[p] = Bool(FALSE)
           /\ UNCHANGED <<idb, ls, queue, dbInstance>>]_vars

C7_Witness ==
    /\ StoreDone(Caller)
    /\ cacheKey[Caller] = <<>>
    /\ result[Caller] = Bool(FALSE)
    /\ ls[CacheLSKey(K1)].kind = "json"

(***************************************************************************)
(* C8.  With the structured tier open, any error of the structured write, *)
(* an exception at the start of the write transaction included, makes     *)
(* store fall through to the flat tier; store never raises: every store   *)
(* that completes has returned true or false.                             *)
(***************************************************************************)
C8_StoreNeverRaises ==
    \A p \in Procs : StoreDone(p) => result[p].t = "boolean"

(***************************************************************************)
(* C9.  On a platform without a structured store no request is ever       *)
(* issued to it, and store and lookup behave as the flat tier alone: a    *)
(* store that returned true has set the flat entry, a lookup that         *)
(* returned a payload returned the flat entry's, and a lookup returned    *)
(* absent only when the flat tier has no valid, unexpired entry.          *)
(***************************************************************************)
C9_FlatOnlyWithoutIndexedDB ==
    ~platformIDB =>
        /\ queue = <<>>
        /\ dbInstance = "null"
        /\ idb = EmptyIDB
        /\ \A p \in Procs :
            /\ pc[p] \in {"idle", "done"}
            /\ (StoreDone(p) /\ result[p] = Bool(TRUE))
               => ls[CacheLSKey(cacheKey[p])] = JSONStringify(cacheData[p])
            /\ (LookupDone(p) /\ result[p] = Null) => ~FlatValid(cacheKey[p], now)
            /\ LookupDone(p)
               => \/ result[p] = Null
                  \/ /\ result[p].t = "data"
                     /\ ls[CacheLSKey(cacheKey[p])].kind = "json"
                     /\ ls[CacheLSKey(cacheKey[p])].value.data = result[p].v

C9_Witness ==
    /\ ~platformIDB
    /\ LookupDone(Caller)
    /\ result[Caller] = Data(P1)

(***************************************************************************)
(* C10.  After an open attempt of the structured tier has failed, no      *)
(* later lookup, store, purge or sweep issues another open request.       *)
(***************************************************************************)
\* With one caller, a completed call that went past validation on a platform
\* with IndexedDB while no handle is cached has awaited an open that failed.
OpenHasFailed ==
    /\ platformIDB
    /\ dbInstance = "null"
    /\ \E p \in Procs : pc[p] = "done" /\ (op[p] = "lookup" \/ cacheData[p].present)

C11_SingleFlight == OpenCount(queue) <= 1

(***************************************************************************)
(* C12.  When a flat-tier write of store fails with quota-exceeded, the   *)
(* sweep run before the retry is the flat-tier sweep, whether or not the  *)
(* structured tier is open: when the store has returned after a sweep,    *)
(* the flat tier holds at most 5 cache entries besides the one written.   *)
(***************************************************************************)
C12_FlatSweepOnQuota ==
    \A p \in Procs :
        (StoreDone(p) /\ attempts[p].sweep >= 1 /\ result[p].t = "boolean")
        => Cardinality(FlatCacheKeys(ls) \ {CacheLSKey(cacheKey[p])}) <= LS_MAX_ENTRIES

(***************************************************************************)
(* C13.  Bounded recovery: within one store call the flat-tier write is   *)
(* attempted at most twice and the sweep runs at most once, and a store   *)
(* whose second write fails returns false.  Provided every storage        *)
(* request completes, every store call that is suspended eventually       *)
(* completes with true or false.                                          *)
(***************************************************************************)
C13_BoundedRecovery ==
    /\ [](\A p \in Procs : attempts[p].setItem <= 2 /\ attempts[p].sweep <= 1)
    /\ \A p \in Procs :
        (op[p] = "store" /\ pc[p] \notin {"idle", "done"})
            ~> (StoreDone(p) /\ result[p].t = "boolean")

(***************************************************************************)
(* C14.  Oversize rejection: a store whose record is longer than 2 MiB    *)
(* and that reaches the flat tier returns false without any write to the  *)
(* flat store, without sweep and without retry, and leaves the flat tier  *)
(* unchanged; a record of 2 MiB or less is not rejected for size: when    *)
(* the store reaches the flat tier, the write is attempted.               *)
(***************************************************************************)
\* The step completes a store that went to the flat tier: started without a
\* database, or after its open or its put has failed.
ReachesFlatTier(p) ==
    /\ StoreReturns(p)
    /\ cacheData'[p].present
    /\ \/ pc[p] \in {"idle", "done"} /\ dbInstance = "null"
       \/ pc[p] = "open_wait" /\ OpenComplete(FALSE)
       \/ pc[p] = "put_wait" /\ PutComplete(FALSE)

C14_OversizeRejected ==
    [][\A p \in Procs :
        ReachesFlatTier(p) =>
            IF JSONLength(cacheData'[p]) > 2 * 1024 * 1024
            THEN /\ result'[p] = Bool(FALSE)
                 /\ ls' = ls
                 /\ attempts'[p] = NoAttempts
            ELSE attempts'[p].setItem >= 1]_vars

C14_Witness ==
    /\ StoreDone(Caller)
    /\ cacheData[Caller].present
    /\ JSONLength(cacheData[Caller]) = 2 * 1024 * 1024
    /\ result[Caller] = Bool(TRUE)
    /\ ls[CacheLSKey(cacheKey[Caller])] = JSONStringify(cacheData[Caller])

(***************************************************************************)
(* C15.  Eviction by count: a sweep of the structured tier over n records *)
(* whose texts are together at most 500 MiB long deletes every record but *)
(* the min(n, 50) with the greatest write-time: it issues the deletion of *)
(* exactly the others, and the deletions remove them when they commit.    *)
(***************************************************************************)
C15_EvictionCount ==
    /\ [][(IDBSweepStep /\ TotalSize(idb) <= 500 * 1024 * 1024)
            => LET kept == PresentKeys(idb) \ KeysToDelete
               IN  /\ KeysToDelete \subseteq PresentKeys(idb)
                   /\ Cardinality(kept) = Min(Cardinality(PresentKeys(idb)), 50)
                   /\ NewestRecords(idb, kept)]_vars
    /\ [][DeleteCommits]_vars

C15_Witness ==
    /\ StoreDone(Caller)
    /\ attempts[Caller].sweep = 1
    /\ queue = <<>>
    /\ OldKey(1) \in DOMAIN idb
    /\ ~idb[OldKey(1)].present
    /\ Cardinality(PresentKeys(idb)) = 50
    /\ TotalSize(idb) <= 500 * 1024 * 1024

(***************************************************************************)
(* C16.  Eviction by size: a sweep of the structured tier over n records  *)
(* whose texts are together longer than 500 MiB deletes every record but  *)
(* the min(n, 30) with the greatest write-time, whether n is above or     *)
(* below 50: at most 30 remain when the deletions have committed.         *)
(***************************************************************************)
C16_EvictionSize ==
    /\ [][(IDBSweepStep /\ TotalSize(idb) > 500 * 1024 * 1024)
            => LET kept == PresentKeys(idb) \ KeysToDelete
               IN  /\ KeysToDelete \subseteq PresentKeys(idb)
                   /\ Cardinality(kept) = Min(Cardinality(PresentKeys(idb)), 30)
                   /\ NewestRecords(idb, kept)]_vars
    /\ [][(HeadIs("delete") /\ DeleteComplete(TRUE))
            => \A k \in Head(queue).keys : idb'[k] = NoRecord]_vars

C16_Witness ==
    /\ StoreDone(Caller)
    /\ attempts[Caller].sweep = 1
    /\ queue = <<>>
    /\ OldKey(IDB_MAX_ENTRIES_LARGE + 1) \in DOMAIN idb
    /\ ~idb[OldKey(1)].present
    /\ Cardinality(PresentKeys(idb)) = 30
    /\ TotalSize(idb) > 500 * 1024 * 1024

(***************************************************************************)
(* C17.  Flat-tier retention: a sweep of the flat tier over n entries     *)
(* under the prefix or the legacy prefix leaves exactly the min(n, 5)     *)
(* entries with the greatest write-time and deletes the others, an entry  *)
(* that cannot be deserialized counting as the oldest; entries of other   *)
(* subsystems stay.  The write retried after the sweep touches only the   *)
(* entry of the store's own key.                                          *)
(***************************************************************************)
\* The step of caller p runs the sweep of the flat tier: no database is to be
\* had, at once or after the open request of the sweep has failed.
FlatSweepStep(p) ==
    \/ ~platformIDB /\ StoreReturns(p) /\ attempts'[p].sweep = 1
    \/ /\ pc[p] = "open_wait" /\ stage[p] # "main"
       /\ HeadIs("open") /\ Head(queue).proc = p
       /\ OpenComplete(FALSE)

WriteTime(text) == IF text.kind = "json" THEN text.value.timestamp ELSE 0

C17_FlatRetention ==
    [][\A p \in Procs :
        FlatSweepStep(p) =>
            LET entries == FlatCacheKeys(ls)
                own == CacheLSKey(cacheKey'[p])
                swept(S, k) == IF k \in entries \ S THEN NoItem ELSE ls[k]
            IN  \E S \in SUBSET entries :
                    /\ Cardinality(S) = Min(Cardinality(entries), 5)
                    /\ \A a \in S, b \in entries \ S :
                            WriteTime(ls[a]) >= WriteTime(ls[b])
                    /\ \A k \in DOMAIN ls :
                            \/ ls'[k] = swept(S, k)
                            \/ k = own /\ ls'[k] = JSONStringify(cacheData'[p])]_vars

C17_Witness ==
    /\ StoreDone(Caller)
    /\ attempts[Caller].sweep = 1
    /\ dbInstance = "null"
    /\ LSKey(CONVERSATION_CACHE_PREFIX, OldKey(1)) \in DOMAIN ls
    /\ ls[LSKey(CONVERSATION_CACHE_PREFIX, OldKey(1))] = NoItem
    /\ ls[LEGACY_KEY] = NoItem
    /\ ls[USER_INFO_KEY] # NoItem
    /\ Cardinality(FlatCacheKeys(ls) \ {CacheLSKey(cacheKey[Caller])}) = 5

(***************************************************************************)
(* C18.  A failure during an eviction sweep never propagates out of the   *)
(* sweep: a store that has run a sweep is never left with a promise that  *)
(* cannot be settled, and when it has completed it has returned true or   *)
(* false.                                                                  *)
(***************************************************************************)
C18_SweepFailureContained ==
    \A p \in Procs :
        attempts[p].sweep >= 1 =>
            /\ pc[p] # "hung"
            /\ StoreDone(p) => result[p].t = "boolean"

(***************************************************************************)
(* C19.  lookup never raises to its caller: every failure while reading   *)
(* either tier is recovered as a miss, so every lookup that completes has *)
(* returned a payload or absent.                                          *)
(***************************************************************************)
C19_LookupNeverRaises ==
    \A p \in Procs : LookupDone(p) => result[p].t \in {"null", "data"}

(***************************************************************************)
(* C20.  In every fetch-then-cache sequence store is invoked only after   *)
(* the remote result set is completely assembled, and with all fetched    *)
(* pages in the payload; a sequence that ends early, by a failed page     *)
(* fetch or at the limit of 100 pages with more pages to come, writes no  *)
(* record.                                                                 *)
(***************************************************************************)
C20_StoreAfterCompleteFetch ==
    /\ fetch.load[Caller].phase = "storing"
        => /\ ~fetch.load[Caller].hasMore
           /\ op[Caller] = "store"
           /\ cacheData[Caller].present
           /\ Len(cacheData[Caller].data.conversations) = fetch.load[Caller].pages
    /\ fetch.load[Caller].phase = "fetch_failed" => op[Caller] = "lookup"

(***************************************************************************)
(* C21.  Last write wins: when two store calls for the same key overlap   *)
(* and write to the same tier, every write replaces the record under the  *)
(* key by the complete record (payload, writtenAt, expiresAt) of the call *)
(* whose write the storage applies, and changes no other key: the tier    *)
(* holds one record for the key, that of the write applied last, never a  *)
(* mixture of the fields of the two.                                      *)
(***************************************************************************)
\* The keys of the flat tier whose text the step has set.
FlatWritten == {k \in DOMAIN ls : ls'[k] # ls[k] /\ ls'[k] # NoItem}

C21_LastWriteWins ==
    /\ [][(HeadIs("put") /\ PutComplete(TRUE))
            => idb' = [idb EXCEPT ![Head(queue).key] = cacheData[Head(queue).proc]]]_vars
    /\ [][\A k \in FlatWritten :
            \E p \in Procs :
                /\ StoreReturns(p)
                /\ k = CacheLSKey(cacheKey'[p])
                /\ ls'[k] = JSONStringify(cacheData'[p])
                /\ FlatWritten = {k}]_vars
    /\ [](\A k \in DOMAIN idb : idb[k].present => idb[k].cacheKey = k)

\* Both stores were suspended on their own open request; both puts were applied,
\* that of p2 last, and the tier holds the record of p2, whose payload and
\* write-time differ from those of p1.
C21_Witness ==
    /\ StoreDone("p1") /\ result["p1"] = Bool(TRUE) /\ attempts["p1"] = NoAttempts
    /\ StoreDone("p2") /\ result["p2"] = Bool(TRUE) /\ attempts["p2"] = NoAttempts
    /\ cacheData["p1"].timestamp # cacheData["p2"].timestamp
    /\ cacheData["p1"].data # cacheData["p2"].data
    /\ idb[K1] = cacheData["p2"]
    /\ ls[CacheLSKey(K1)] = NoItem
    /\ queue = <<>>

(***************************************************************************)
(* C22.  For every owner and every calendar date D the key of (owner, D   *)
(* as a date-time string) equals the key of (owner, D as the date         *)
(* string): everything from the separator "T" on is dropped and the key   *)
(* is "<owner>_<date>".  Stated on the records of the flat tier and on    *)
(* the record of the last store: each is under "<owner>_<D>", whichever   *)
(* of the two forms its date was given in.                                *)
(***************************************************************************)
\* text is the date day as it stands, or day followed by "T" and a time
DateOrDateTime(text, day) ==
    \/ text = day
    \/ /\ Len(text) > Len(day)
       /\ SubSeq(text, 1, Len(day)) = day
       /\ text[Len(day) + 1] = "T"

\* the records the model can look at: those of the flat tier with the key they
\* are stored under, and the record of the caller's last store with its key
KeyedRecords ==
    {<<k.rest, JSONParse(ls[k])>> :
        k \in {j \in DOMAIN ls : IsCacheLSKey(j) /\ ls[j].kind = "json"}}
    \cup (IF cacheData[Caller].present
          THEN {<<cacheKey[Caller], cacheData[Caller]>>} ELSE {})

C22_DateTimeEqualsDate ==
    \A kr \in KeyedRecords, day \in KeyDays :
        DateOrDateTime(kr[2].date, day)
            => kr[1] = Trim(kr[2].adminId) \o <<"_">> \o day

\* a record stored with the date-time form is in the flat tier, and the last
\* store, with the date form, was given the same key
C22_Witness ==
    /\ StoreDone(Caller)
    /\ cacheData[Caller].present
    /\ cacheData[Caller].date \in KeyDays
    /\ ls[CacheLSKey(cacheKey[Caller])].kind = "json"
    /\ JSONParse(ls[CacheLSKey(cacheKey[Caller])]).date
            = cacheData[Caller].date \o <<"T", "0">>
    /\ JSONParse(ls[CacheLSKey(cacheKey[Caller])]).adminId = cacheData[Caller].adminId

(***************************************************************************)
(* C23.  The key is injective over the normalized domain: two (owner,     *)
(* date) pairs whose trimmed owners differ or whose calendar dates differ *)
(* never have the same key, and two pairs that are equal after            *)
(* normalization always have the same key.                                *)
(***************************************************************************)
\* the calendar date of a date text: blanks around it and the time of day dropped
NormalDay(text) == CHOOSE day \in KeyDays : DateOrDateTime(Trim(text), day)

C23_Injective ==
    \A a, b \in KeyedRecords :
        (a[1] = b[1])
            <=> /\ Trim(a[2].adminId) = Trim(b[2].adminId)
                /\ NormalDay(a[2].date) = NormalDay(b[2].date)

\* the last store and a record of the flat tier spell one owner and one date
\* differently and have one key, and another record of the flat tier, of another
\* owner for the same date, is under another key
C23_Witness ==
    /\ StoreDone(Caller)
    /\ cacheData[Caller].present
    /\ \E a, b \in KeyedRecords :
            /\ a[2] = cacheData[Caller]
            /\ a[1] = b[1]
            /\ a[2].adminId # b[2].adminId
            /\ a[2].date # b[2].date
    /\ \E a, b \in KeyedRecords :
            /\ a[1] # b[1]
            /\ Trim(a[2].adminId) # Trim(b[2].adminId)
            /\ NormalDay(a[2].date) = NormalDay(b[2].date)

(***************************************************************************)
(* C24.  When a lookup finds an expired or structurally invalid record in *)
(* the structured tier, the purge deletes that key from the structured    *)
(* tier only: the flat tier, and so an entry it holds under the same key, *)
(* is left unchanged.                                                     *)
(***************************************************************************)
\* The step is the one in which a lookup reads a record of the structured tier
\* that is expired or lacks its payload.
ReadsStaleRecord ==
    /\ HeadIs("get")
    /\ GetComplete(TRUE)
    /\ idb[Head(queue).key].present
    /\ IsExpired(idb[Head(queue).key], now) \/ DataMissing(idb[Head(queue).key])

C24_PurgeStructuredOnly == [][ReadsStaleRecord => ls' = ls]_vars

(***************************************************************************)
(* C25.  When the flat-tier write of a store fails for a reason other     *)
(* than quota-exceeded, an error of another kind or the entry not being   *)
(* found on read-back, the store returns false at once: no sweep is run   *)
(* and the write is not attempted a second time.                          *)
(***************************************************************************)
C25_NoRetryWithoutQuota ==
    \A p \in Procs :
        attempts[p].first \in {"error", "lost"}
            => /\ StoreDone(p)
               /\ result[p] = Bool(FALSE)
               /\ attempts[p].sweep = 0
               /\ attempts[p].setItem = 1

\* setItem returned and the entry was not there on read-back
C25_Witness ==
    /\ StoreDone(Caller)
    /\ attempts[Caller].first = "lost"
    /\ result[Caller] = Bool(FALSE)
    /\ ls[CacheLSKey(cacheKey[Caller])] = NoItem

(***************************************************************************)
(* C26.  Freshness: over the stores and lookups of one key, with no       *)
(* record expired, a lookup that returns a payload returns the payload of *)
(* the most recent store that returned true, never that of an earlier     *)
(* store, also when the two stores landed in different tiers.  Stated for *)
(* the caller whose last store has written its record: while that record  *)
(* is in a tier, a completed lookup of its key that returned a payload    *)
(* has returned the payload of that record.                               *)
(***************************************************************************)
\* The record the last store of p built is the one a tier holds for its key.
LastStoreWritten(p) ==
    /\ cacheData[p].present
    /\ \/ idb[cacheData[p].cacheKey] = cacheData[p]
       \/ ls[CacheLSKey(cacheData[p].cacheKey)] = JSONStringify(cacheData[p])

\* No record of either tier has expired.
NothingExpired ==
    /\ \A k \in DOMAIN idb : idb[k].present => ~IsExpired(idb[k], now)
    /\ \A k \in FlatCacheKeys(ls) :
            ls[k].kind = "json" => ~IsExpired(JSONParse(ls[k]), now)

C26_Freshness ==
    \A p \in Procs :
        ( /\ LookupDone(p)
          /\ result[p].t = "data"
          /\ LastStoreWritten(p)
          /\ cacheData[p].cacheKey = cacheKey[p]
          /\ NothingExpired )
        => result[p] = Data(cacheData[p].data)

(***************************************************************************)
(* C27.  The purge started by a lookup that read an expired or invalid    *)
(* record removes only the record it read: when a store for the same key  *)
(* completes between the read and the delete, the freshly stored record   *)
(* is still there after the purge.  With no sweep deleting anything,      *)
(* every delete that commits is a purge, and the record it removes is     *)
(* expired or lacks its payload.                                          *)
(***************************************************************************)
\* The record is one a lookup at time t purges rather than returns.
Stale(rec, t) == IsExpired(rec, t) \/ DataMissing(rec)

C27_PurgeRemovesOnlyStale ==
    [][(HeadIs("delete") /\ DeleteComplete(TRUE))
        => \A k \in Head(queue).keys : idb[k].present => Stale(idb[k], now)]_vars

(***************************************************************************)
(* C28.  A lookup that returns a payload leaves both tiers unchanged: no  *)
(* record is added, deleted or rewritten, and the record returned keeps   *)
(* its writtenAt and expiresAt (no sliding expiration).  Every step of a  *)
(* lookup other than the return of absent leaves the tiers as they are    *)
(* and issues no write or delete request.                                 *)
(***************************************************************************)
\* The step is one of a lookup of p: its start, or the completion of the request
\* it waits for.
LookupStep(p) ==
    \/ LookupStarts(p)
    \/ op[p] = "lookup" /\ pc[p] \in WaitStates /\ pc'[p] # pc[p]

\* the requests in q that write or delete
WriteCount(q) == Cardinality({i \in 1..Len(q) : q[i].type \in {"put", "delete"}})

C28_HitIsReadOnly ==
    [][\A p \in Procs :
        (LookupStep(p) /\ ~(pc'[p] = "done" /\ result'[p] = Null))
            => /\ idb' = idb
               /\ ls' = ls
               /\ WriteCount(queue') <= WriteCount(queue)]_vars

\* a hit in the structured tier some time after the store: the record is as the
\* store wrote it
C28_Witness ==
    /\ LookupDone(Caller)
    /\ result[Caller].t = "data"
    /\ dbInstance = "db"
    /\ idb[cacheKey[Caller]] = cacheData[Caller]
    /\ result[Caller].v = cacheData[Caller].data
    /\ now > cacheData[Caller].timestamp
    /\ idb[cacheKey[Caller]].expiresAt < now + TTL

(***************************************************************************)
(* C29.  The sweep of the flat tier deletes only entries whose key starts *)
(* with the prefix or the legacy prefix: every other key of the flat      *)
(* store, the stored user info for one, is unchanged by any sweep, and    *)
(* with at most 5 prefixed entries the sweep deletes nothing.  The sweep  *)
(* of the structured tier does not touch the flat store.                  *)
(***************************************************************************)
\* the key starts with 'admin_conversations_cache_' or 'conversations_cache_'
Prefixed(k) == k.prefix \in {"admin_conversations_cache_", "conversations_cache_"}

C29_SweepFrame ==
    /\ [][\A p \in Procs :
            FlatSweepStep(p) =>
                /\ \A k \in DOMAIN ls : ~Prefixed(k) => ls'[k] = ls[k]
                /\ Cardinality({k \in DOMAIN ls : Prefixed(k) /\ ls[k] # NoItem}) <= 5
                    => \A k \in DOMAIN ls : ls[k] # NoItem => ls'[k] # NoItem]_vars
    /\ [][IDBSweepStep =>
            \A k \in DOMAIN ls :
                k # CacheLSKey(cacheKey[Head(queue).proc]) => ls'[k] = ls[k]]_vars

\* a sweep of a flat store with exactly 5 prefixed entries has run: all of them,
\* the one that does not parse and the legacy one included, and the user info
\* are still there
C29_Witness ==
    /\ StoreDone(Caller)
    /\ attempts[Caller].sweep = 1
    /\ dbInstance = "null"
    /\ LSKey(CONVERSATION_CACHE_PREFIX, OldKey(LS_MAX_ENTRIES - 1)) \in DOMAIN ls
    /\ ls[LSKey(CONVERSATION_CACHE_PREFIX, OldKey(1))] = [kind |-> "garbage"]
    /\ ls[LEGACY_KEY] = BaseLS[LEGACY_KEY]
    /\ ls[USER_INFO_KEY] = BaseLS[USER_INFO_KEY]
    /\ \A i \in 1..(LS_MAX_ENTRIES - 1) :
            ls[LSKey(CONVERSATION_CACHE_PREFIX, OldKey(i))] # NoItem

(***************************************************************************)
(* C30.  When two fetch-then-cache sequences, two loads started for       *)
(* different dates before the first has finished, overlap in time, the    *)
(* payload each one stores under its (owner, date) key holds exactly the  *)
(* items fetched for that date and no item fetched by the other sequence. *)
(***************************************************************************)
C30_NoCrossContamination ==
    \A p \in Procs :
        (fetch.load[p].phase \in {"storing", "finished"} /\ cacheData[p].present)
            => /\ cacheData[p].cacheKey = getConversationCacheKey(AdminA, SelectedDate[p])
               /\ cacheData[p].data.conversations
                    = [i \in 1..fetch.load[p].pages |-> Conversation[p]]

====
